---- MODULE Spec2Model ----
(***************************************************************************)
(* Legion Assault Timer (src/src/App.tsx and its earlier variant           *)
(* src/unnamed/part_000): the cycle arithmetic of calculateAssaultStatus   *)
(* and calculateUpcomingAssaults, the calendar arithmetic of               *)
(* formatServerTime, and the React component App with its three effects.   *)
(*                                                                         *)
(* Time.  The source counts milliseconds since the epoch in IEEE doubles.  *)
(* Every instant and duration the code adds or compares is an integer      *)
(* number of milliseconds far below 2^53, and hoursSinceReference keeps    *)
(* more than 30 bits of margin to every cycle boundary, so the doubles     *)
(* behave as exact rationals.  The model uses exact integer arithmetic     *)
(* with one MINUTE as its unit (an epoch millisecond count does not fit    *)
(* the model checker's integers): HOUR is the source's (1000 * 60 * 60).   *)
(* The quantity the source holds in fractional hours (positionInCycle) is  *)
(* held here in minutes; comparisons and sums are otherwise as written.    *)
(***************************************************************************)
EXTENDS Integers, Sequences, FiniteSets, TLC

VARIABLES
    variant,        \* which source file's REGION_CONFIGS is in force: "A" = src/src/App.tsx, "B" = src/unnamed/part_000
    pc,             \* position of the call under study: "input" before it, the function's name after it
    region,         \* argument `region` of the function under study
    now,            \* what Date.now() returns at the (first) clock read
    k,              \* number of whole cycles the second evaluation is shifted by
    status,         \* result of calculateAssaultStatus at `now`
    shifted,        \* result of calculateAssaultStatus at now + k * cycleLength
    count,          \* argument `count` of calculateUpcomingAssaults
    adv,            \* how far the clock advances between the two clock reads of calculateUpcomingAssaults
    upcoming,       \* result of calculateUpcomingAssaults
    timestamp,      \* argument `timestamp` of formatServerTime
    timezoneOffset, \* the hour offset formatServerTime applies
    formatted,      \* the corrected (year, month, day, hours, minutes) formatServerTime renders
    app             \* the component App, its window and its timers (fields: see AppInit)

vars == <<variant, pc, region, now, k, status, shifted, count, adv, upcoming,
          timestamp, timezoneOffset, formatted, app>>

-----------------------------------------------------------------------------
(* Constants of the source *)

HOUR == 60
ASSAULT_DURATION_HOURS == 6
\* WAIT_DURATION_HOURS = 8.5, held as a count of half hours
WAIT_DURATION_HALF_HOURS == 17

ASSAULT_DURATION == ASSAULT_DURATION_HOURS * HOUR
WAIT_DURATION == (WAIT_DURATION_HALF_HOURS * HOUR) \div 2
\* CYCLE_DURATION_HOURS = ASSAULT_DURATION_HOURS + WAIT_DURATION_HOURS
CYCLE_DURATION == ASSAULT_DURATION + WAIT_DURATION

Regions == {"EU", "US"}
Variants == {"A", "B"}

\* referenceStartTime: number | null
NULL == <<>>
Some(t) == <<t>>
Value(opt) == opt[1]

-----------------------------------------------------------------------------
(* The Date object: epoch instants <-> UTC calendar fields (proleptic      *)
(* Gregorian, ECMAScript's Day, YearFromTime, MonthFromTime, DateFromTime) *)

IsLeapYear(y) == (y % 4 = 0) /\ ((y % 100 # 0) \/ (y % 400 = 0))

\* Day number (days since 1970-01-01) of a UTC calendar date
DaysFromCivil(y, m, d) ==
    LET yy  == IF m <= 2 THEN y - 1 ELSE y
        era == yy \div 400
        yoe == yy - era * 400
        mp  == (m + 9) % 12
        doy == (153 * mp + 2) \div 5 + d - 1
        doe == yoe * 365 + yoe \div 4 - yoe \div 100 + doy
    IN  era * 146097 + doe - 719468

\* new Date('yyyy-mm-ddThh:mm:00Z').getTime()
DateUTC(y, m, d, h, mi) == DaysFromCivil(y, m, d) * (24 * HOUR) + h * HOUR + mi

\* getUTCFullYear, getUTCMonth() + 1, getUTCDate, getUTCHours, getUTCMinutes
UTCFields(t) ==
    LET day == t \div (24 * HOUR)
        tod == t % (24 * HOUR)
        z   == day + 719468
        era == z \div 146097
        doe == z - era * 146097
        yoe == (doe - doe \div 1460 + doe \div 36524 - doe \div 146096) \div 365
        doy == doe - (365 * yoe + yoe \div 4 - yoe \div 100)
        mp  == (5 * doy + 2) \div 153
        d   == doy - (153 * mp + 2) \div 5 + 1
        m   == IF mp < 10 THEN mp + 3 ELSE mp - 9
        y   == yoe + era * 400 + (IF m <= 2 THEN 1 ELSE 0)
    IN  [year |-> y, month |-> m, day |-> d,
         hours |-> tod \div HOUR, minutes |-> tod % HOUR]

-----------------------------------------------------------------------------
(* REGION_CONFIGS *)

\* REGION_CONFIGS with the EU reference written as its local time (14:00
\* CET) instead of the 13:00 UTC the source's comment derives from it
REGION_CONFIGS_LocalReference(v) ==
    IF v = "A"
    THEN [EU |-> [timezoneOffset |-> 1,
                  referenceStartTime |-> Some(DateUTC(2025, 11, 6, 14, 0))],
          US |-> [timezoneOffset |-> -8,
                  referenceStartTime |-> Some(DateUTC(2025, 11, 6, 12, 30))]]
    ELSE [EU |-> [timezoneOffset |-> 1,
                  referenceStartTime |-> Some(DateUTC(2025, 11, 6, 14, 0))],
          US |-> [timezoneOffset |-> -5,
                  referenceStartTime |-> NULL]]

REGION_CONFIGS(v) ==
    IF v = "A"
    THEN [EU |-> [timezoneOffset |-> 1,
                  referenceStartTime |-> Some(DateUTC(2025, 11, 6, 13, 0))],
          US |-> [timezoneOffset |-> -8,
                  referenceStartTime |-> Some(DateUTC(2025, 11, 6, 12, 30))]]
    ELSE [EU |-> [timezoneOffset |-> 1,
                  referenceStartTime |-> Some(DateUTC(2025, 11, 6, 13, 0))],
          US |-> [timezoneOffset |-> -5,
                  referenceStartTime |-> NULL]]

-----------------------------------------------------------------------------
(* calculateAssaultStatus *)

\* JavaScript's % on numbers: the result takes the sign of the dividend
JsRem(a, b) == IF a >= 0 THEN a % b ELSE -((-a) % b)

\* const positionInCycle = hoursSinceReference % CYCLE_DURATION_HOURS  (in minutes)
PositionInCycle(config, t) ==
    JsRem(t - Value(config.referenceStartTime), CYCLE_DURATION)

\* Math.floor(hoursSinceReference / CYCLE_DURATION_HOURS)
CyclesSinceReference(config, t) ==
    (t - Value(config.referenceStartTime)) \div CYCLE_DURATION

\* isActive with the first instant of a cycle counted to the wait before it
IsActive_ExclusiveStart(positionInCycle) ==
    0 < positionInCycle /\ positionInCycle < ASSAULT_DURATION

\* const isActive = positionInCycle < ASSAULT_DURATION_HOURS
IsActive(positionInCycle) == positionInCycle < ASSAULT_DURATION

\* the no-reference status with hasReference copied from the other branches
NoReferenceStatus_HasReference ==
    [isActive |-> FALSE, timeRemaining |-> 0, nextStartTime |-> 0,
     currentStartTime |-> 0, currentEndTime |-> 0, hasReference |-> TRUE]

\* lines 46-55: the status of a region that has no reference instant
NoReferenceStatus ==
    [isActive |-> FALSE, timeRemaining |-> 0, nextStartTime |-> 0,
     currentStartTime |-> 0, currentEndTime |-> 0, hasReference |-> FALSE]

\* the branch `if (isActive)`
ActiveStatus(currentCycleStartTime, positionInCycle) ==
    LET currentStartTime == currentCycleStartTime
        currentEndTime == currentStartTime + ASSAULT_DURATION
    IN  [isActive |-> TRUE,
         timeRemaining |-> ASSAULT_DURATION - positionInCycle,
         nextStartTime |-> currentEndTime + WAIT_DURATION,
         currentStartTime |-> currentStartTime,
         currentEndTime |-> currentEndTime,
         hasReference |-> TRUE]

\* the waiting branch with currentEndTime taken a wait, not an assault, after
\* currentStartTime
WaitingStatus_EndAfterWait(currentCycleStartTime, positionInCycle) ==
    LET nextStartTime == currentCycleStartTime + CYCLE_DURATION
        currentStartTime == nextStartTime
    IN  [isActive |-> FALSE,
         timeRemaining |-> CYCLE_DURATION - positionInCycle,
         nextStartTime |-> nextStartTime,
         currentStartTime |-> currentStartTime,
         currentEndTime |-> currentStartTime + WAIT_DURATION,
         hasReference |-> TRUE]

\* the waiting branch with timeRemaining counted from the wait duration, as
\* if positionInCycle started at the end of the assault
WaitingStatus_RemainingFromWait(currentCycleStartTime, positionInCycle) ==
    LET nextStartTime == currentCycleStartTime + CYCLE_DURATION
        currentStartTime == nextStartTime
    IN  [isActive |-> FALSE,
         timeRemaining |-> WAIT_DURATION - positionInCycle,
         nextStartTime |-> nextStartTime,
         currentStartTime |-> currentStartTime,
         currentEndTime |-> currentStartTime + ASSAULT_DURATION,
         hasReference |-> TRUE]

\* the branch `else`: waiting, the next assault starts at the next cycle
WaitingStatus(currentCycleStartTime, positionInCycle) ==
    LET nextStartTime == currentCycleStartTime + CYCLE_DURATION
        currentStartTime == nextStartTime
    IN  [isActive |-> FALSE,
         timeRemaining |-> CYCLE_DURATION - positionInCycle,
         nextStartTime |-> nextStartTime,
         currentStartTime |-> currentStartTime,
         currentEndTime |-> currentStartTime + ASSAULT_DURATION,
         hasReference |-> TRUE]

\* `t` is what Date.now() returns inside the call
CalculateAssaultStatus(config, t) ==
    IF config.referenceStartTime = NULL
    THEN NoReferenceStatus
    ELSE
      LET positionInCycle == PositionInCycle(config, t)
          currentCycleStartTime ==
              Value(config.referenceStartTime)
                + CyclesSinceReference(config, t) * CYCLE_DURATION
      IN  IF IsActive(positionInCycle)
          THEN ActiveStatus(currentCycleStartTime, positionInCycle)
          ELSE WaitingStatus(currentCycleStartTime, positionInCycle)

-----------------------------------------------------------------------------
(* calculateUpcomingAssaults (src/src/App.tsx only) *)

\* lines 139-146 with the active branch forgetting the wait period
NextAssaultStart_NoWait(st) ==
    IF st.isActive
    THEN st.currentEndTime
    ELSE st.nextStartTime

\* lines 139-146: the start of the next assault, from the status
NextAssaultStart(st) ==
    IF st.isActive
    THEN st.currentEndTime + WAIT_DURATION
    ELSE st.nextStartTime

\* the loop body's candidate number i (0-based)
UpcomingCandidate(nextStartTime, i) ==
    LET startTime == nextStartTime + i * CYCLE_DURATION
    IN  [startTime |-> startTime, endTime |-> startTime + ASSAULT_DURATION]

\* `t1` is what Date.now() returns inside calculateAssaultStatus, `t2` what
\* it returns at `const now = Date.now()` after that call
CalculateUpcomingAssaults(config, t1, t2, n) ==
    IF config.referenceStartTime = NULL
    THEN <<>>
    ELSE
      LET st == CalculateAssaultStatus(config, t1)
          nextStartTime == NextAssaultStart(st)
          candidates == [i \in 1..n |-> UpcomingCandidate(nextStartTime, i - 1)]
          IsFuture(u) == u.startTime > t2
      IN  SelectSeq(candidates, IsFuture)

-----------------------------------------------------------------------------
(* formatServerTime *)

\* new Date(year, month, 0).getDate(): the last day of month `month` (1-12).
\* The Date constructor reads a year of 0..99 as 1900 + year (MakeFullYear).
DaysInMonth(year, month) ==
    LET y == IF 0 <= year /\ year <= 99 THEN 1900 + year ELSE year
    IN  IF month = 2 THEN (IF IsLeapYear(y) THEN 29 ELSE 28)
        ELSE IF month \in {4, 6, 9, 11} THEN 30
        ELSE 31

\* the corrected (year, month, day, hours, minutes) that formatServerTime
\* renders; `offset` is REGION_CONFIGS[region].timezoneOffset in
\* src/src/App.tsx, the parameter timezoneOffset in src/unnamed/part_000
FormatServerTime(t, offset) ==
    LET utc == UTCFields(t)
        hours == utc.hours + offset
    IN  IF hours >= 24
        THEN LET day == utc.day + 1
             IN  IF day > DaysInMonth(utc.year, utc.month)
                 THEN IF utc.month + 1 > 12
                      THEN [year |-> utc.year + 1, month |-> 1, day |-> 1,
                            hours |-> hours - 24, minutes |-> utc.minutes]
                      ELSE [year |-> utc.year, month |-> utc.month + 1, day |-> 1,
                            hours |-> hours - 24, minutes |-> utc.minutes]
                 ELSE [year |-> utc.year, month |-> utc.month, day |-> day,
                       hours |-> hours - 24, minutes |-> utc.minutes]
        ELSE IF hours < 0
        THEN LET day == utc.day - 1
             IN  IF day < 1
                 THEN LET month == IF utc.month - 1 < 1 THEN 12 ELSE utc.month - 1
                          year == IF utc.month - 1 < 1 THEN utc.year - 1 ELSE utc.year
                      IN  [year |-> year, month |-> month,
                           day |-> DaysInMonth(year, month),
                           hours |-> hours + 24, minutes |-> utc.minutes]
                 ELSE [year |-> utc.year, month |-> utc.month, day |-> day,
                       hours |-> hours + 24, minutes |-> utc.minutes]
        ELSE [year |-> utc.year, month |-> utc.month, day |-> utc.day,
              hours |-> hours, minutes |-> utc.minutes]

-----------------------------------------------------------------------------
(* The component App: window.location.hash, the state hooks, the effects   *)

\* String.prototype.toUpperCase on the fragments the model draws
ToUpperCase(h) ==
    CASE h = "eu" -> "EU"
      [] h = "us" -> "US"
      [] h = "xx" -> "XX"
      [] OTHER -> h

\* getRegionFromHash: `h` is window.location.hash.slice(1)
GetRegionFromHash(h) ==
    LET hash == ToUpperCase(h)
    IN  IF hash = "EU" \/ hash = "US" THEN hash ELSE "EU"

\* window.location.hash = v: the fragment is set and, when it differs from
\* the old one, the browser queues a hashchange event
SetLocationHash(a, v) ==
    IF a.hash = v THEN a
    ELSE [a EXCEPT !.hash = v, !.hashEvents = @ + 1]

\* the mount effect (deps []): set the initial hash if not present, listen
MountHashEffect(a) ==
    LET initialRegion == GetRegionFromHash(a.hash)
        b == IF a.hash = "" \/ ToUpperCase(a.hash) # initialRegion
             THEN SetLocationHash(a, initialRegion)
             ELSE a
    IN  [b EXCEPT !.listening = TRUE]

\* the hash effect with its test inverted (=== for !==)
HashEffect_InvertedTest(a) ==
    IF ToUpperCase(a.hash) = a.region
    THEN SetLocationHash(a, a.region)
    ELSE a

\* the effect "update hash when region changes" (deps [region])
HashEffect(a) ==
    IF ToUpperCase(a.hash) # a.region
    THEN SetLocationHash(a, a.region)
    ELSE a

\* the status effect returning no cleanup: the interval is never cleared
StatusCleanup_NoClear(a) ==
    [a EXCEPT !.interval = "none"]

\* the cleanup of the status effect: clearInterval(interval)
StatusCleanup(a) ==
    IF a.interval = "none" THEN a
    ELSE [a EXCEPT !.timers[a.interval] = @ - 1, !.interval = "none"]

\* the status effect without its immediate setStatus: the status is left to
\* the first callback of the interval
StatusEffect_IntervalOnly(a, v, t) ==
    [a EXCEPT !.timers[a.region] = @ + 1,
              !.interval = a.region]

\* the effect "update status when region changes" (deps [region]):
\* setStatus now, then setInterval of the same every second
StatusEffect(a, v, t) ==
    [a EXCEPT !.status = CalculateAssaultStatus(REGION_CONFIGS(v)[a.region], t),
              !.statusFor = a.region,
              !.timers[a.region] = @ + 1,
              !.interval = a.region]

\* React runs the effects a render left pending: after the first render all
\* three, after a render with a new region the cleanup of the status effect
\* and the two effects that depend on [region]
FlushPassiveEffects(a, v, t) ==
    IF ~a.pending THEN a
    ELSE LET b == IF a.phase = "rendered"
                  THEN [MountHashEffect(a) EXCEPT !.phase = "mounted"]
                  ELSE StatusCleanup(a)
         IN  [StatusEffect(HashEffect(b), v, t) EXCEPT !.pending = FALSE]

\* setRegion(r): no render when r is the current region; otherwise React
\* first flushes the effects still pending, then renders with the new region
SetRegion(a, v, t, r, cause) ==
    IF r = a.region THEN a
    ELSE [FlushPassiveEffects(a, v, t) EXCEPT
              !.region = r, !.pending = TRUE, !.lastChange = cause]

-----------------------------------------------------------------------------
(* Bounds of the model *)

\* the clock is sampled this many minutes apart, and one minute either side
NowStep == 30
\* the samples reach this many steps before and after the EU reference instant
MaxSteps == 64
\* shifts of up to this many whole cycles, either way
MaxK == 2

EUReference == DateUTC(2025, 11, 6, 13, 0)

Nows == {EUReference + d * NowStep + e : d \in -MaxSteps..MaxSteps, e \in {-1, 0, 1}}

\* calculateUpcomingAssaults is asked for up to this many entries
MaxCount == 3
\* between its two reads the clock advances by up to this many whole cycles
MaxAdvCycles == 2

Advances == {0, 1} \cup {c * CYCLE_DURATION + e : c \in 1..MaxAdvCycles, e \in {-1, 0, 1}}

\* formatServerTime is applied with hour offsets of up to this magnitude
MaxOffset == 23

\* the years, days of the month, hours and minutes its instants are drawn from
FormatYears == {0, 1900, 2000, 2024, 2025}
FormatDays == {1, 28, 29, 30, 31}
FormatHours == {0, 12, 23}
FormatMinutes == {0, 59}

\* the Gregorian length of a month
GregorianDaysInMonth(y, m) ==
    IF m = 2 THEN (IF IsLeapYear(y) THEN 29 ELSE 28)
    ELSE IF m \in {4, 6, 9, 11} THEN 30
    ELSE 31

Timestamps ==
    {DateUTC(d[1], d[2], d[3], h, mi) :
        d \in {x \in FormatYears \X (1..12) \X FormatDays :
                  x[3] <= GregorianDaysInMonth(x[1], x[2])},
        h \in FormatHours, mi \in FormatMinutes}

\* the user clicks a region button or edits the URL fragment up to this many times
MaxUserEvents == 3
\* the clock of the component runs this many minutes on
MaxAppClock == 2

\* the fragments the URL is opened with or edited to
HashValues == {"", "EU", "US", "eu", "us", "xx"}

\* the component is opened a minute before the first EU assault ends
AppStart == EUReference + ASSAULT_DURATION - 1

\* value of the variables a specification does not use
None == "none"

Config == REGION_CONFIGS(variant)[region]
HasReference == Config.referenceStartTime # NULL

-----------------------------------------------------------------------------
(* Specification of calculateAssaultStatus: the region, the clock and the  *)
(* shift are drawn, then the function is applied at now and at the         *)
(* shifted instant.                                                        *)

StatusInit ==
    /\ variant \in Variants
    /\ region \in Regions
    /\ now \in Nows
    /\ k \in -MaxK..MaxK
    /\ pc = "input"
    /\ status = None /\ shifted = None
    /\ count = 0 /\ adv = 0 /\ upcoming = None
    /\ timestamp = 0 /\ timezoneOffset = 0 /\ formatted = None
    /\ app = None

ComputeStatus ==
    /\ pc = "input"
    /\ pc' = "status"
    /\ status' = CalculateAssaultStatus(Config, now)
    /\ shifted' = CalculateAssaultStatus(Config, now + k * CYCLE_DURATION)
    /\ UNCHANGED <<variant, region, now, k, count, adv, upcoming,
                   timestamp, timezoneOffset, formatted, app>>

StatusNext == ComputeStatus

SpecStatus == StatusInit /\ [][StatusNext]_vars

StatusDone == pc = "status"

-----------------------------------------------------------------------------
(* Specification of calculateUpcomingAssaults: the region, the clock, its  *)
(* advance between the two reads and the count are drawn, then the         *)
(* function is applied; `status` is what calculateAssaultStatus returns    *)
(* for the same region at the first read.                                  *)

UpcomingInit ==
    /\ variant \in Variants
    /\ region \in Regions
    /\ now \in Nows
    /\ adv \in Advances
    /\ count \in 0..MaxCount
    /\ pc = "input"
    /\ status = None /\ upcoming = None
    /\ k = 0 /\ shifted = None
    /\ timestamp = 0 /\ timezoneOffset = 0 /\ formatted = None
    /\ app = None

ComputeUpcoming ==
    /\ pc = "input"
    /\ pc' = "upcoming"
    /\ status' = CalculateAssaultStatus(Config, now)
    /\ upcoming' = CalculateUpcomingAssaults(Config, now, now + adv, count)
    /\ UNCHANGED <<variant, region, now, k, shifted, count, adv,
                   timestamp, timezoneOffset, formatted, app>>

UpcomingNext == ComputeUpcoming

SpecUpcoming == UpcomingInit /\ [][UpcomingNext]_vars

UpcomingDone == pc = "upcoming"

Reference == Value(Config.referenceStartTime)

\* the mathematical (floored) modulo the cycle position is specified with
FlooredMod(a, b) == a - b * (a \div b)

-----------------------------------------------------------------------------
(* Specification of the component App.  `app` holds                        *)
(*   phase       "rendered" after the first render, "mounted" once its     *)
(*               effects have run, "unmounted" after teardown              *)
(*   region, status             the two state hooks                        *)
(*   statusFor   the region `status` was computed for                      *)
(*   hash        window.location.hash without its '#'                      *)
(*   hashEvents  hashchange events queued and not yet dispatched           *)
(*   listening   handleHashChange is registered                            *)
(*   pending     a render's effects have not run yet                       *)
(*   timers      per region, the live intervals whose callback computes    *)
(*               the status of that region                                 *)
(*   interval    the interval the status effect's cleanup will clear       *)
(*   lastChange  what last changed `region` ("click" or "hash"), "none"    *)
(*               before any change and after a later edit of the fragment  *)
(*   budget      clicks and fragment edits the user has left               *)
(* and `now` is the clock.                                                 *)

AppInit ==
    /\ variant \in Variants
    /\ now = AppStart
    /\ \E h \in HashValues :
          app = [phase |-> "rendered",
                 region |-> GetRegionFromHash(h),
                 status |-> CalculateAssaultStatus(
                                REGION_CONFIGS(variant)[GetRegionFromHash(h)], now),
                 statusFor |-> GetRegionFromHash(h),
                 hash |-> h,
                 hashEvents |-> 0,
                 listening |-> FALSE,
                 pending |-> TRUE,
                 timers |-> [r \in Regions |-> 0],
                 interval |-> "none",
                 lastChange |-> "none",
                 budget |-> MaxUserEvents]
    /\ pc = "app" /\ region = "EU" /\ k = 0 /\ status = None /\ shifted = None
    /\ count = 0 /\ adv = 0 /\ upcoming = None
    /\ timestamp = 0 /\ timezoneOffset = 0 /\ formatted = None

callVars == <<pc, region, k, status, shifted, count, adv, upcoming,
              timestamp, timezoneOffset, formatted>>

\* React runs the pending effects
RunEffects ==
    /\ app.phase \in {"rendered", "mounted"}
    /\ app.pending
    /\ app' = FlushPassiveEffects(app, variant, now)
    /\ UNCHANGED <<variant, now, callVars>>

\* onClick={() => setRegion(r)}
Click(r) ==
    /\ app.phase \in {"rendered", "mounted"}
    /\ app.budget > 0
    /\ app' = [SetRegion(app, variant, now, r, "click") EXCEPT !.budget = @ - 1]
    /\ UNCHANGED <<variant, now, callVars>>

\* the user edits the URL fragment (or goes back/forward)
UserEditsHash(h) ==
    /\ app.budget > 0
    /\ h # app.hash
    /\ app' = [SetLocationHash(app, h) EXCEPT !.budget = @ - 1, !.lastChange = "none"]
    /\ UNCHANGED <<variant, now, callVars>>

\* the browser dispatches a queued hashchange event: handleHashChange, when
\* it is registered
DispatchHashChange ==
    /\ app.hashEvents > 0
    /\ LET a == [app EXCEPT !.hashEvents = @ - 1]
       IN  app' = IF a.listening
                  THEN SetRegion(a, variant, now, GetRegionFromHash(a.hash), "hash")
                  ELSE a
    /\ UNCHANGED <<variant, now, callVars>>

\* a live interval of region r fires: setStatus(calculateAssaultStatus(r));
\* the clock has moved on by less than a minute since the last read
Tick(r) ==
    /\ app.timers[r] > 0
    /\ \E t \in {now, now + 1} :
          /\ t <= AppStart + MaxAppClock
          /\ now' = t
          /\ app' = [app EXCEPT
                        !.status = CalculateAssaultStatus(REGION_CONFIGS(variant)[r], t),
                        !.statusFor = r]
    /\ UNCHANGED <<variant, callVars>>

\* React tears the component down: the cleanups of the effects that ran
Unmount ==
    /\ app.phase = "mounted"
    /\ app' = [StatusCleanup(app) EXCEPT
                  !.phase = "unmounted", !.listening = FALSE, !.pending = FALSE]
    /\ UNCHANGED <<variant, now, callVars>>

AppNext ==
    \/ RunEffects
    \/ \E r \in Regions : Click(r)
    \/ \E h \in HashValues : UserEditsHash(h)
    \/ DispatchHashChange
    \/ \E r \in Regions : Tick(r)
    \/ Unmount

SpecApp == AppInit /\ [][AppNext]_vars

\* the browser's event loop gets to every queued task: pending effects run,
\* queued hashchange events are dispatched
SpecAppFair ==
    /\ SpecApp
    /\ WF_vars(RunEffects)
    /\ WF_vars(DispatchHashChange)

\* the component is mounted, no effect is pending and no hashchange event is queued
Quiescent ==
    /\ pc = "app"
    /\ app.phase = "mounted"
    /\ ~app.pending
    /\ app.hashEvents = 0

-----------------------------------------------------------------------------
(* Properties of calculateAssaultStatus, under SpecStatus *)

\* C1: for a region with a reference instant and any now, the result has a
\* reference, is active or waiting with a positive timeRemaining, and
\* timeRemaining lies in (0, cycleLength].
C1_RemainingInCycleRange ==
    (StatusDone /\ HasReference) =>
        /\ status.hasReference
        /\ status.isActive \in BOOLEAN
        /\ status.timeRemaining > 0
        /\ status.timeRemaining <= CYCLE_DURATION

\* C2: periodicity: the results at now and at now + k * cycleLength have the
\* same isActive, and the three instants of the second are those of the
\* first shifted by k * cycleLength.
C2_Periodicity ==
    (StatusDone /\ HasReference) =>
        /\ shifted.isActive = status.isActive
        /\ shifted.currentStartTime = status.currentStartTime + k * CYCLE_DURATION
        /\ shifted.currentEndTime = status.currentEndTime + k * CYCLE_DURATION
        /\ shifted.nextStartTime = status.nextStartTime + k * CYCLE_DURATION

\* C3: for now strictly before the reference instant, positionInCycle lies
\* in [0, cycleLength), and isActive is true exactly when the floored modulo
\* of (now - reference) by cycleLength is below the active duration.
C3_FlooredPosition ==
    (StatusDone /\ HasReference /\ now < Reference) =>
        /\ PositionInCycle(Config, now) >= 0
        /\ PositionInCycle(Config, now) < CYCLE_DURATION
        /\ status.isActive <=>
             (FlooredMod(now - Reference, CYCLE_DURATION) < ASSAULT_DURATION)

\* C4 as stated: for every result, of every region profile, currentEndTime -
\* currentStartTime is the active duration.
C4_EveryResultSpansAssault ==
    StatusDone =>
        status.currentEndTime - status.currentStartTime = ASSAULT_DURATION

\* C4 as amended: for every result of a region that has a reference instant,
\* currentEndTime - currentStartTime is the active duration; the result of a
\* region without one has both instants at the epoch.
C4_ReferencedResultSpansAssault ==
    StatusDone =>
        IF HasReference
        THEN status.currentEndTime - status.currentStartTime = ASSAULT_DURATION
        ELSE status.currentEndTime = 0 /\ status.currentStartTime = 0

\* a waiting result of a region with a reference instant
C4_Witness ==
    /\ StatusDone /\ HasReference
    /\ ~status.isActive
    /\ status.currentEndTime - status.currentStartTime = ASSAULT_DURATION

\* C8: when now is a cycle boundary, a whole number of cycles (positive, zero
\* or negative) from the reference instant, the result is active with the
\* whole active duration remaining and currentStartTime = now.
C8_BoundaryIsActive ==
    (StatusDone /\ HasReference
       /\ (now - Reference) % CYCLE_DURATION = 0) =>
        /\ status.isActive
        /\ status.timeRemaining = ASSAULT_DURATION
        /\ status.currentStartTime = now

\* a boundary a whole cycle before the reference instant, computed
C8_Witness ==
    /\ StatusDone /\ HasReference
    /\ now = Reference - CYCLE_DURATION
    /\ status.isActive /\ status.currentStartTime = now

\* C9 as stated: EU, now = 2025-11-06T19:30:00Z: active with 6h remaining.
C9_ActiveAt1930 ==
    (StatusDone /\ region = "EU" /\ now = DateUTC(2025, 11, 6, 19, 30)) =>
        status.isActive /\ status.timeRemaining = 6 * HOUR

\* C9 as amended: EU, reference 2025-11-06T13:00:00Z: the next cycle starts
\* at reference + 14.5h = 2025-11-07T03:30:00Z, where the result is active
\* with 6h remaining; at 2025-11-06T19:30:00Z (reference + 6.5h) the result
\* is waiting with 8h remaining.
C9_ActiveAt0330 ==
    /\ (StatusDone /\ region = "EU" /\ now = DateUTC(2025, 11, 7, 3, 30)) =>
           /\ Reference = DateUTC(2025, 11, 6, 13, 0)
           /\ status.isActive /\ status.timeRemaining = 6 * HOUR
           /\ status.currentStartTime = now
    /\ (StatusDone /\ region = "EU" /\ now = DateUTC(2025, 11, 6, 19, 30)) =>
           /\ ~status.isActive /\ status.timeRemaining = 8 * HOUR
           /\ status.nextStartTime = DateUTC(2025, 11, 7, 3, 30)

\* the EU status computed at 2025-11-07T03:30:00Z
C9_Witness ==
    /\ StatusDone /\ region = "EU"
    /\ now = DateUTC(2025, 11, 7, 3, 30)
    /\ status.isActive

-----------------------------------------------------------------------------
(* Specification of formatServerTime: the instant and the hour offset are  *)
(* drawn, then the function is applied.                                    *)

FormatInit ==
    /\ variant \in Variants
    /\ timestamp \in Timestamps
    /\ timezoneOffset \in -MaxOffset..MaxOffset
    /\ pc = "input"
    /\ formatted = None
    /\ region = "EU" /\ now = 0 /\ k = 0 /\ status = None /\ shifted = None
    /\ count = 0 /\ adv = 0 /\ upcoming = None
    /\ app = None

ComputeFormat ==
    /\ pc = "input"
    /\ pc' = "format"
    /\ formatted' = FormatServerTime(timestamp, timezoneOffset)
    /\ UNCHANGED <<variant, region, now, k, status, shifted, count, adv,
                   upcoming, timestamp, timezoneOffset, app>>

FormatNext == ComputeFormat

SpecFormat == FormatInit /\ [][FormatNext]_vars

FormatDone == pc = "format"

-----------------------------------------------------------------------------
(* Properties of calculateUpcomingAssaults, under SpecUpcoming *)

\* the starts of the active intervals: the reference instant and every whole
\* number of cycles from it
IsAssaultStart(t) == (t - Reference) % CYCLE_DURATION = 0

\* the first active-interval start strictly after t
FirstStartAfter(t) ==
    CHOOSE s \in (t + 1)..(t + CYCLE_DURATION) : IsAssaultStart(s)

\* C5: for a region with a reference instant, any now and any count >= 0,
\* also when the clock advances between the two reads: at most count
\* entries, every startTime strictly after now (either read), the first
\* entry the first active-interval start strictly after now, consecutive
\* startTimes exactly a cycle apart, every endTime = startTime + active
\* duration.
C5_UpcomingAreNextStarts ==
    (UpcomingDone /\ HasReference) =>
        /\ Len(upcoming) <= count
        /\ \A i \in 1..Len(upcoming) :
              /\ upcoming[i].startTime > now + adv
              /\ upcoming[i].startTime > now
              /\ upcoming[i].endTime = upcoming[i].startTime + ASSAULT_DURATION
        /\ Len(upcoming) > 0 => upcoming[1].startTime = FirstStartAfter(now + adv)
        /\ \A i \in 1..(Len(upcoming) - 1) :
              upcoming[i + 1].startTime - upcoming[i].startTime = CYCLE_DURATION

\* the clock passed the first candidate between the reads, before the
\* reference instant, and entries remain
C5_Witness ==
    /\ UpcomingDone /\ HasReference
    /\ now < Reference /\ adv > 0
    /\ Len(upcoming) > 1 /\ Len(upcoming) < count
    /\ upcoming[1].startTime = FirstStartAfter(now + adv)

\* C6: for a region without a reference instant, at any now and for any
\* count, calculateAssaultStatus returns hasReference = false, isActive =
\* false, timeRemaining = 0 and the three instants 0, and
\* calculateUpcomingAssaults returns the empty sequence.
C6_NoReferenceIsEmpty ==
    (UpcomingDone /\ ~HasReference) =>
        /\ status.hasReference = FALSE
        /\ status.isActive = FALSE
        /\ status.timeRemaining = 0
        /\ status.currentStartTime = 0
        /\ status.currentEndTime = 0
        /\ status.nextStartTime = 0
        /\ upcoming = <<>>

\* both functions applied to the region without a reference, asked for
\* entries
C6_Witness ==
    /\ UpcomingDone /\ ~HasReference
    /\ count > 0
    /\ upcoming = <<>> /\ ~status.hasReference

-----------------------------------------------------------------------------
(* Properties of formatServerTime, under SpecFormat *)

\* C7: for every instant and every hour offset of magnitude below 24, the
\* corrected (year, month, day, hours, minutes) is the UTC calendar
\* decomposition of the instant shifted by the offset: hours in 0..23, day in
\* 1..the Gregorian length of the month, rollover carried both ways.
C7_CalendarCorrect ==
    FormatDone =>
        /\ formatted = UTCFields(timestamp + timezoneOffset * HOUR)
        /\ formatted.hours \in 0..23
        /\ formatted.day \in 1..GregorianDaysInMonth(formatted.year, formatted.month)

\* the same with the instants of the years 0..99 left out, the years the
\* Date constructor reads as 1900..1999
FormatCorrectOutsideTwoDigitYears ==
    (FormatDone /\ UTCFields(timestamp).year \notin 0..99) =>
        formatted = UTCFields(timestamp + timezoneOffset * HOUR)

-----------------------------------------------------------------------------
(* Properties of the component App, under SpecAppFair *)

\* C10 as stated: once the effects of a change of region (by click or by
\* fragment) have run, the fragment is exactly the canonical identifier of
\* the selected region.
C10_FragmentIsCanonical ==
    (Quiescent /\ app.lastChange # "none") => app.hash = app.region

\* the loop of region and fragment updates has come to rest: nothing pending,
\* nothing queued (or the component is gone)
AtRest == app.phase = "unmounted" \/ Quiescent

\* C10 as amended: once the effects of a change of region (by click or by
\* fragment, in any letter case) have run, the fragment upper-cased is the
\* canonical identifier of the selected region, and the loop of region and
\* fragment updates comes to rest once the user stops.
C10_FragmentNamesRegion ==
    /\ []((Quiescent /\ app.lastChange # "none") =>
             ToUpperCase(app.hash) = app.region)
    /\ <>[]AtRest

\* the region was changed to US by a lower-case fragment, the effects have run
C10_Witness ==
    /\ Quiescent
    /\ app.lastChange = "hash"
    /\ app.region = "US" /\ app.hash = "us"

\* the number of live intervals
LiveTimers == app.timers["EU"] + app.timers["US"]

\* C11: the one-second timer is scoped to the status effect: at most one
\* interval is live at any time, and it is the one the effect's cleanup holds
\* (the interval of a region is cleared before the next one is created);
\* after teardown no interval is left, and no callback updates the status.
C11_TimerIsScoped ==
    /\ [](/\ LiveTimers <= 1
          /\ \A r \in Regions : app.timers[r] > 0 => app.interval = r
          /\ app.phase = "unmounted" => LiveTimers = 0)
    /\ [][app.phase = "unmounted" =>
            (app'.status = app.status /\ app'.statusFor = app.statusFor)]_vars

\* the region was changed, its effects ran with the interval of the new
\* region replacing the old one, and the component was then torn down
C11_Witness ==
    /\ pc = "app"
    /\ app.phase = "unmounted"
    /\ app.lastChange # "none"
    /\ app.region = "US" /\ app.statusFor = "US"
    /\ LiveTimers = 0 /\ app.interval = "none"

-----------------------------------------------------------------------------
(* Countdown consistency of calculateAssaultStatus, under SpecStatus *)

\* C12: for a region with a reference instant and now at or after it: when
\* active, currentStartTime <= now < currentEndTime and now + timeRemaining =
\* currentEndTime; when waiting, currentStartTime - waitDuration <= now <
\* nextStartTime, now + timeRemaining = nextStartTime and currentStartTime =
\* nextStartTime.
C12_CountdownConsistent ==
    (StatusDone /\ HasReference /\ now >= Reference) =>
        IF status.isActive
        THEN /\ status.currentStartTime <= now
             /\ now < status.currentEndTime
             /\ now + status.timeRemaining = status.currentEndTime
        ELSE /\ status.currentStartTime - WAIT_DURATION <= now
             /\ now < status.nextStartTime
             /\ now + status.timeRemaining = status.nextStartTime
             /\ status.currentStartTime = status.nextStartTime

\* a waiting result computed after the reference instant, at the first
\* instant of the wait
C12_Witness ==
    /\ StatusDone /\ HasReference
    /\ now > Reference
    /\ ~status.isActive
    /\ now = status.currentStartTime - WAIT_DURATION
    /\ now + status.timeRemaining = status.nextStartTime

-----------------------------------------------------------------------------
(* The stored status of the component App, under SpecApp *)

\* the effects of the latest render have run and the component is mounted
EffectsHaveRun ==
    /\ pc = "app"
    /\ app.phase = "mounted"
    /\ ~app.pending

\* C13: after any interleaving of clicks, fragment changes and timer ticks,
\* once the effects of the latest change of region have run the stored
\* status is one computed for the selected region, and no interval of another
\* region is left to overwrite it.
C13_StatusIsOfSelectedRegion ==
    EffectsHaveRun =>
        /\ app.statusFor = app.region
        /\ app.status.hasReference
             = (REGION_CONFIGS(variant)[app.region].referenceStartTime # NULL)
        /\ \A r \in Regions \ {app.region} : app.timers[r] = 0
        /\ app.timers[app.region] = 1

\* the region was changed to US, its effects ran, and the clock has ticked
\* on with the stored status that of US
C13_Witness ==
    /\ EffectsHaveRun
    /\ app.lastChange # "none"
    /\ app.region = "US" /\ app.statusFor = "US"
    /\ now > AppStart
    /\ app.status = CalculateAssaultStatus(REGION_CONFIGS(variant)["US"], now)

====
